---------------------------- MODULE Spec2Model ----------------------------
(***************************************************************************)
(* FlexMaster: the XP / leveling subsystem (src/main.py, src/dbinit.py)    *)
(* and the response validation subsystem (src/ai_engine.py).               *)
(*                                                                         *)
(* Python ints are unbounded and Python floats are IEEE-754 doubles; the   *)
(* leveling formula floor(sqrt(xp / 50)) is modelled with both: integers   *)
(* that may exceed the checker's machine integers are kept as limb         *)
(* vectors, and a double is a pair (53-bit mantissa, exponent).            *)
(***************************************************************************)
EXTENDS Integers, Sequences, FiniteSets, TLC

(***************************************************************************)
(* Bounds of the model.                                                    *)
(***************************************************************************)
\* Levels 0..MaxLevel are tried for the threshold properties.
MaxLevel == 60
\* Requests accepted in one behaviour of the server.
MaxRequests == 2
\* Ledger events appended in one behaviour of the ordering specification.
MaxEvents == 3
\* XP values -2..MaxXp are tried, in pairs, for monotonicity.
MaxXp == 60

(***************************************************************************)
(* Unbounded naturals: 8 limbs of 15 bits, least significant first (120    *)
(* bits: room for the square of a 53-bit mantissa).  Carries are written   *)
(* in closed form so that no operation recurses over the limbs.            *)
(***************************************************************************)
Base == 2^15
LimbIdx == 1..8

Vec(F(_)) == <<F(1), F(2), F(3), F(4), F(5), F(6), F(7), F(8)>>

\* A machine integer 0 <= n < 2^31 as limbs.
BigOfInt(n) ==
    <<n % Base, (n \div Base) % Base, n \div (Base * Base), 0, 0, 0, 0, 0>>

BigZero == BigOfInt(0)
BigOne == BigOfInt(1)

\* Limbs back to a machine integer (the value must be below 2^31).
IntOfBig(a) == a[1] + a[2] * Base + a[3] * Base * Base

\* The carry into limb i of a + b: some lower limb generates one and every
\* limb between propagates it.
CarryIn(a, b, i) ==
    IF \E j \in 1..(i-1) :
           /\ a[j] + b[j] >= Base
           /\ \A l \in (j+1)..(i-1) : a[l] + b[l] = Base - 1
    THEN 1 ELSE 0

BigAdd(a, b) ==
    LET S(i) == (a[i] + b[i] + CarryIn(a, b, i)) % Base IN Vec(S)

BorrowIn(a, b, i) ==
    IF \E j \in 1..(i-1) :
           /\ a[j] < b[j]
           /\ \A l \in (j+1)..(i-1) : a[l] = b[l]
    THEN 1 ELSE 0

\* a - b for a >= b.
BigSub(a, b) ==
    LET D(i) == (a[i] - b[i] - BorrowIn(a, b, i) + Base) % Base IN Vec(D)

BigLeq(a, b) ==
    \/ a = b
    \/ \E i \in LimbIdx : a[i] < b[i] /\ \A j \in (i+1)..8 : a[j] = b[j]
BigLess(a, b) == a # b /\ BigLeq(a, b)

\* a * k for a machine integer 0 <= k < Base: the low halves of the limb
\* products plus the high halves one limb up.
BigMulSmall(a, k) ==
    LET Lo(i) == (a[i] * k) % Base
        Hi(i) == IF i = 1 THEN 0 ELSE (a[i-1] * k) \div Base
    IN  BigAdd(Vec(Lo), Vec(Hi))

LimbShl(a, k) == LET E(i) == IF i > k THEN a[i-k] ELSE 0 IN Vec(E)
LimbShr(a, k) == LET E(i) == IF i + k <= 8 THEN a[i+k] ELSE 0 IN Vec(E)

\* a * n for a machine integer 0 <= n < 2^30.
BigMulInt(a, n) ==
    BigAdd(LimbShl(BigMulSmall(a, n \div Base), 1), BigMulSmall(a, n % Base))

\* Base^t mod d.
RECURSIVE PowMod(_, _)
PowMod(t, d) == IF t = 0 THEN 1 % d ELSE (PowMod(t - 1, d) * (Base % d)) % d

\* The limbs above limb i, as a number, mod d (0 < d <= Base).
RemAbove(a, d, i) ==
    LET T(j) == IF j > i THEN ((a[j] % d) * PowMod(j - i - 1, d)) % d ELSE 0
    IN  (T(1) + T(2) + T(3) + T(4) + T(5) + T(6) + T(7) + T(8)) % d

\* floor(a / d) and a mod d for a machine integer 0 < d <= Base.
BigDivSmall(a, d) ==
    LET Q(i) == (RemAbove(a, d, i) * Base + a[i]) \div d IN Vec(Q)
BigModSmall(a, d) == RemAbove(a, d, 0)

\* a * 2^n and floor(a / 2^n).
BigShl(a, n) == BigMulSmall(LimbShl(a, n \div 15), 2^(n % 15))
BigShr(a, n) == BigDivSmall(LimbShr(a, n \div 15), 2^(n % 15))

BigPow2(n) == BigShl(BigOne, n)

(***************************************************************************)
(* IEEE-754 doubles, positive and normal: m * 2^e with                     *)
(* 2^(MantissaBits-1) <= m < 2^MantissaBits, rounding to nearest, ties to  *)
(* even.                                                                   *)
(***************************************************************************)
MantissaBits == 53

MantLo == BigPow2(MantissaBits - 1)
MantHi == BigPow2(MantissaBits)

Normalize(f) ==
    IF f.m = MantHi THEN [m |-> MantLo, e |-> f.e + 1] ELSE f

\* The number of bits of a > 0.
BigBitLen(a) ==
    LET top == CHOOSE i \in LimbIdx :
                   a[i] # 0 /\ \A j \in LimbIdx : j > i => a[j] = 0
        b   == CHOOSE k \in 1..15 : 2^(k-1) <= a[top] /\ a[top] < 2^k
    IN  15 * (top - 1) + b

\* x * 2^s, rounded down when s < 0.
BigScale(x, s) == IF s >= 0 THEN BigShl(x, s) ELSE BigShr(x, -s)

\* The scale s with 2^52 <= floor(x * 2^s / d) < 2^53, for x > 0; s is
\* negative when x / d >= 2^53.
DivScale(x, d) ==
    LET s0 == MantissaBits - 1 - BigBitLen(x) + BigBitLen(BigOfInt(d))
    IN  IF BigLeq(MantLo, BigDivSmall(BigScale(x, s0), d)) THEN s0 ELSE s0 + 1

\* The bits of x that X = BigScale(x, s) dropped, as a machine integer
\* (s > -16).
DroppedBits(x, X, s) ==
    IF s >= 0 THEN 0 ELSE IntOfBig(BigSub(x, BigShl(X, -s)))

\* Rounding to nearest, ties to even: q is the quotient rounded down and
\* rest / unit the rest of the division, twice over.
TrueDivRound(q, rest, unit, s) ==
    Normalize([m |-> IF rest > unit \/ (rest = unit /\ q[1] % 2 = 1)
                     THEN BigAdd(q, BigOne) ELSE q,
               e |-> -s])

\* With n = -s bits dropped from x the rest of the division is
\* (r * 2^n + dropped) / (d * 2^n).
TrueDivScaled(x, X, d, n, s) ==
    TrueDivRound(BigDivSmall(X, d),
                 2 * (BigModSmall(X, d) * 2^n + DroppedBits(x, X, s)),
                 d * 2^n, s)

TrueDivAt(x, d, s) ==
    TrueDivScaled(x, BigScale(x, s), d, IF s >= 0 THEN 0 ELSE -s, s)

\* Python's int / int: the double nearest to x / d.
TrueDiv(x, d) == TrueDivAt(x, d, DivScale(x, d))

\* Integer square root by the digit-by-digit method.  One step on
\* (n, res, bit), bit a power of 4; when bit reaches 0, res is
\* floor(sqrt(n0)) and n is n0 - res^2.
IsqrtStep(st) ==
    IF st.bit = BigZero THEN st
    ELSE LET t == BigAdd(st.res, st.bit) IN
         IF BigLeq(t, st.n)
         THEN [n   |-> BigSub(st.n, t),
               res |-> BigAdd(BigShr(st.res, 1), st.bit),
               bit |-> BigShr(st.bit, 2)]
         ELSE [n |-> st.n, res |-> BigShr(st.res, 1), bit |-> BigShr(st.bit, 2)]

\* k steps, split in halves to keep the evaluation shallow.
RECURSIVE IsqrtSteps(_, _)
IsqrtSteps(st, k) ==
    IF k = 0 THEN st
    ELSE IF k = 1 THEN IsqrtStep(st)
    ELSE LET half == IsqrtSteps(st, k \div 2)
         IN  IF half.bit = BigZero THEN half
             ELSE IsqrtSteps(half, k - k \div 2)

\* floor(sqrt(n)) and the rest, for n < 2^(2 * MantissaBits).
Isqrt(n) ==
    LET st == IsqrtSteps([n |-> n, res |-> BigZero,
                          bit |-> BigPow2(2 * (MantissaBits - 1))], MantissaBits)
    IN  [root |-> st.res, rem |-> st.n]

\* math.sqrt: the double nearest to sqrt(f).  sqrt(m * 2^e) * 2^t is
\* sqrt(m * 2^k) with k = e + 2t in {52, 53}, a number in [2^52, 2^53).
FSqrt(f) ==
    LET k  == IF f.e % 2 = 0 THEN MantissaBits - 1 ELSE MantissaBits
        t  == (k - f.e) \div 2
        N  == BigShl(f.m, k)
        sr == Isqrt(N)
        up == BigLess(sr.root, sr.rem)
    IN  Normalize([m |-> IF up THEN BigAdd(sr.root, BigOne) ELSE sr.root,
                   e |-> -t])

\* math.floor of a double f >= 1 with f.e <= 0, as limbs.
FFloor(f) == BigShr(f.m, -f.e)

(***************************************************************************)
(* Python ints: sign and magnitude.                                        *)
(***************************************************************************)
PyInt(n) == [neg |-> n < 0, mag |-> BigOfInt(IF n < 0 THEN -n ELSE n)]
PyBig(a) == [neg |-> FALSE, mag |-> a]
PyIsPositive(x) == ~x.neg /\ x.mag # BigZero

(***************************************************************************)
(* The leveling engine, src/main.py 42-53.                                 *)
(***************************************************************************)
XpPerLevelSq == 50

\* Mutant of calculate_level: the guard is xp == 0 and the level is taken
\* from the magnitude of xp.
calculate_level_abs(xp) ==
    IF xp.mag = BigZero THEN 0
    ELSE LET q  == TrueDiv(xp.mag, XpPerLevelSq)
             fl == IntOfBig(FFloor(FSqrt(q)))
         IN  IF fl > 0 THEN fl ELSE 0

\* calculate_level(xp): 0 for xp <= 0, else max(0, floor(sqrt(xp / 50))).
\* The result is a machine integer (levels stay far below 2^31).
calculate_level(xp) ==
    IF ~PyIsPositive(xp) THEN 0
    ELSE LET q  == TrueDiv(xp.mag, XpPerLevelSq)
             fl == IntOfBig(FFloor(FSqrt(q)))
         IN  IF fl > 0 THEN fl ELSE 0

\* xp_for_next_level(current_level) = (current_level + 1) ** 2 * 50.
xp_for_next_level(current_level) ==
    PyBig(BigMulSmall(BigMulInt(BigOfInt(current_level + 1), current_level + 1),
                      XpPerLevelSq))

(***************************************************************************)
(* Text.  A Python str that the code transforms (lower, strip, substring   *)
(* search) is a sequence of one-character strings.                         *)
(***************************************************************************)
UpperAlpha == <<"A","B","C","D","E","F","G","H","I","J","K","L","M",
                "N","O","P","Q","R","S","T","U","V","W","X","Y","Z">>
LowerAlpha == <<"a","b","c","d","e","f","g","h","i","j","k","l","m",
                "n","o","p","q","r","s","t","u","v","w","x","y","z">>

LowerChar(c) ==
    IF \E i \in 1..Len(UpperAlpha) : UpperAlpha[i] = c
    THEN LowerAlpha[CHOOSE i \in 1..Len(UpperAlpha) : UpperAlpha[i] = c]
    ELSE c

\* str.lower()
Lower(t) == [i \in 1..Len(t) |-> LowerChar(t[i])]

IsSpace(c) == c \in {" ", "\n", "\t"}

\* str.strip()
Strip(t) ==
    IF \A i \in 1..Len(t) : IsSpace(t[i]) THEN <<>>
    ELSE LET first == CHOOSE i \in 1..Len(t) :
                          ~IsSpace(t[i]) /\ \A j \in 1..(i-1) : IsSpace(t[j])
             last  == CHOOSE i \in 1..Len(t) :
                          ~IsSpace(t[i]) /\ \A j \in (i+1)..Len(t) : IsSpace(t[j])
         IN  SubSeq(t, first, last)

\* Python's  k in t  for strs.
Contains(t, k) ==
    \E i \in 0..(Len(t) - Len(k)) : SubSeq(t, i + 1, i + Len(k)) = k

(***************************************************************************)
(* The database (flexmaster.db): the completed_exercises ledger and the    *)
(* users table's total_xp and five cached level columns.                   *)
(***************************************************************************)
Mobility    == <<"M","o","b","i","l","i","t","y">>
Activation  == <<"A","c","t","i","v","a","t","i","o","n">>
Stability   == <<"S","t","a","b","i","l","i","t","y">>
Power       == <<"P","o","w","e","r">>
Balance     == <<"B","a","l","a","n","c","e">>

\* The five movement types, in the order the code lists them.
MovementTypes == <<Mobility, Activation, Stability, Power, Balance>>
MovementTypeSet == {MovementTypes[i] : i \in 1..Len(MovementTypes)}

LevelSuffix == <<"_","l","e","v","e","l">>

\* f"{movement_type.lower()}_level"
level_field(movement_type) == Lower(movement_type) \o LevelSuffix

\* The level columns dbinit.py adds to users.
LevelColumns == {level_field(m) : m \in MovementTypeSet}

\* Python's None, where the value is otherwise a string.
None == "None"

Users == {"u1", "u2"}
\* A request's session: a logged-in user, or no "user_id" in the session.
NoSession == "anonymous"
Sessions == Users \cup {NoSession}

\* Threads of the server handling requests at the same time.
Workers == {"w1", "w2"}

\* JSON bodies of POST /api/complete_exercise.  movement_type and xp_earned
\* come from the client unchecked; has_xp says whether the body has an
\* "xp_earned" key.
CompletePayload(routine_id, exercise_name, movement_type, has_xp, xp_earned) ==
    [routine_id |-> routine_id, exercise_name |-> exercise_name,
     movement_type |-> movement_type, has_xp |-> has_xp,
     xp_earned |-> xp_earned]

Explosive == <<"E","x","p","l","o","s","i","v","e">>

CompletePayloads ==
    { CompletePayload("r1", "Arm Circles", Mobility, TRUE, 50),
      CompletePayload("r1", "Leg Swings", Mobility, TRUE, 150),
      CompletePayload(None, "Plank", Stability, FALSE, 0),
      CompletePayload("r1", "Box Jump", Explosive, TRUE, 50) }

\* JSON bodies of POST /api/complete_routine.
RoutinePayloads ==
    { [routine_id |-> "r1", has_bonus |-> FALSE, bonus_xp |-> 0],
      [routine_id |-> "r1", has_bonus |-> TRUE, bonus_xp |-> 20] }

DefaultXp == 10
DefaultBonus == 50

\* data.get(key, default) for an integer field.
GetInt(has, value, default) == IF has THEN value ELSE default

(***************************************************************************)
(* SQL over the ledger.                                                    *)
(***************************************************************************)
\* Mutant of save_completed_exercise: INSERT OR REPLACE keyed on the user
\* and the exercise, which overwrites an earlier completion of the same move.
save_completed_exercise_upsert(rows, user_id, routine_id, exercise_name, movement_type, xp_earned) ==
    LET row == [user_id |-> user_id, routine_id |-> routine_id,
                exercise_name |-> exercise_name,
                movement_type |-> movement_type, xp_earned |-> xp_earned]
        old == {i \in 1..Len(rows) : rows[i].user_id = user_id
                                    /\ rows[i].exercise_name = exercise_name}
    IN  IF old = {} THEN Append(rows, row)
        ELSE [rows EXCEPT ![CHOOSE i \in old : TRUE] = row]

\* INSERT INTO completed_exercises (user_id, routine_id, exercise_name,
\* movement_type, xp_earned) VALUES (?, ?, ?, ?, ?)
save_completed_exercise(rows, user_id, routine_id, exercise_name, movement_type, xp_earned) ==
    Append(rows, [user_id |-> user_id, routine_id |-> routine_id,
                  exercise_name |-> exercise_name,
                  movement_type |-> movement_type, xp_earned |-> xp_earned])

\* SELECT COALESCE(SUM(xp_earned), 0) FROM completed_exercises
\* WHERE user_id = ? AND movement_type = ?   (the comparison of the types is
\* SQLite's default, case-sensitive BINARY collation)
RECURSIVE SumXp(_, _, _)
SumXp(rows, user_id, movement_type) ==
    IF rows = <<>> THEN 0
    ELSE LET r == rows[Len(rows)]
         IN  SumXp(SubSeq(rows, 1, Len(rows) - 1), user_id, movement_type)
             + (IF r.user_id = user_id /\ r.movement_type = movement_type
                THEN r.xp_earned ELSE 0)

VARIABLES
    ledger,     \* completed_exercises, in insertion order
    total_xp,   \* users.total_xp, per user
    level,      \* users.<m>_level, per user and level column
    req,        \* per worker: the request it is handling and its position
    hist,       \* history: how many requests of each kind were accepted
    pure        \* the call under study in the specifications of pure functions

vars == <<ledger, total_xp, level, req, hist, pure>>
dbvars == <<ledger, total_xp, level, req, hist>>

(***************************************************************************)
(* calculate_level over the XP sums the ledger can hold, computed once.    *)
(***************************************************************************)
PayloadXps ==
    {GetInt(p.has_xp, p.xp_earned, DefaultXp) : p \in CompletePayloads}

\* xp_earned of the events of the ordering specification: the payloads' and
\* a negative one, which the server stores as it comes.
EventXps == PayloadXps \cup {-50}

RECURSIVE XpSums(_)
XpSums(k) ==
    IF k = 0 THEN {0}
    ELSE LET prev == XpSums(k - 1)
         IN  prev \cup {s + x : s \in prev, x \in EventXps}

TableDepth == IF MaxRequests > MaxEvents THEN MaxRequests ELSE MaxEvents

LevelTable == [x \in XpSums(TableDepth) |-> calculate_level(PyInt(x))]

LevelOfXp(xp) == LevelTable[xp]

(***************************************************************************)
(* The server: POST /api/complete_exercise and POST /api/complete_routine. *)
(* Every conn.commit() ends a step; steps of different workers interleave. *)
(***************************************************************************)
Idle ==
    [pc |-> "idle", user_id |-> NoSession, routine_id |-> None,
     exercise_name |-> "", movement_type |-> <<>>, xp_earned |-> 0,
     current_xp |-> 0]

InitDB ==
    /\ ledger = <<>>
    /\ total_xp = [u \in Users |-> 0]
    /\ level = [u \in Users |-> [c \in LevelColumns |-> 0]]
    /\ req = [w \in Workers |-> Idle]
    /\ hist = [started |-> 0, exercises |-> 0]

Init ==
    /\ InitDB
    /\ pure = [pc |-> "unused"]

\* complete_exercise, up to the first statement that touches the database:
\* the session check and the reading of the body.
CompleteExerciseStart(w, sess, data) ==
    /\ req[w].pc = "idle"
    /\ hist.started < MaxRequests
    /\ IF sess = NoSession
       THEN /\ req' = req       \* 401, "Not authenticated"
            /\ hist' = [hist EXCEPT !.started = @ + 1]
       ELSE /\ req' = [req EXCEPT ![w] =
                         [pc |-> "save", user_id |-> sess,
                          routine_id |-> data.routine_id,
                          exercise_name |-> data.exercise_name,
                          movement_type |-> data.movement_type,
                          xp_earned |-> GetInt(data.has_xp, data.xp_earned,
                                               DefaultXp),
                          current_xp |-> 0]]
            /\ hist' = [started |-> hist.started + 1,
                        exercises |-> hist.exercises + 1]
    /\ UNCHANGED <<ledger, total_xp, level, pure>>

\* save_completed_exercise: the INSERT and its commit.
SaveStep(w) ==
    /\ req[w].pc = "save"
    /\ ledger' = save_completed_exercise(ledger, req[w].user_id,
                     req[w].routine_id, req[w].exercise_name,
                     req[w].movement_type, req[w].xp_earned)
    /\ req' = [req EXCEPT ![w].pc = "add_xp"]
    /\ UNCHANGED <<total_xp, level, hist, pure>>

\* add_xp: UPDATE users SET total_xp = total_xp + ? and its commit.
add_xp_total(t, user_id, xp_amount) ==
    [t EXCEPT ![user_id] = @ + xp_amount]

AddXpStep(w) ==
    /\ req[w].pc = "add_xp"
    /\ total_xp' = add_xp_total(total_xp, req[w].user_id, req[w].xp_earned)
    /\ req' = [req EXCEPT ![w].pc = "select"]
    /\ UNCHANGED <<ledger, level, hist, pure>>

\* update_movement_level: the SELECT of the ledger sum (no transaction is
\* open: sqlite3 begins one only before the UPDATE).
SelectStep(w) ==
    /\ req[w].pc = "select"
    /\ req' = [req EXCEPT ![w].current_xp =
                   SumXp(ledger, req[w].user_id, req[w].movement_type),
                          ![w].pc = "update"]
    /\ UNCHANGED <<ledger, total_xp, level, hist, pure>>

\* new_level = calculate_level(current_xp)
new_level(current_xp) == LevelOfXp(current_xp)

\* Mutant of update_movement_level: the level is computed from the XP of
\* the one event (the xp_amount argument) instead of the ledger sum.
update_movement_level_delta(lv, rows, user_id, movement_type, xp_amount) ==
    IF level_field(movement_type) \in LevelColumns
    THEN [lv EXCEPT ![user_id][level_field(movement_type)] =
              new_level(xp_amount)]
    ELSE lv

\* Mutant of update_movement_level: the level of the event's XP is added to
\* the stored level instead of recomputing from the ledger sum.
update_movement_level_incremental(lv, rows, user_id, movement_type, xp_amount) ==
    IF level_field(movement_type) \in LevelColumns
    THEN [lv EXCEPT ![user_id][level_field(movement_type)] =
              @ + new_level(xp_amount)]
    ELSE lv

\* update_movement_level(user_id, movement_type, xp_amount) run without
\* interruption: the level columns after it.  xp_amount is not used.
update_movement_level(lv, rows, user_id, movement_type, xp_amount) ==
    IF level_field(movement_type) \in LevelColumns
    THEN [lv EXCEPT ![user_id][level_field(movement_type)] =
              new_level(SumXp(rows, user_id, movement_type))]
    ELSE lv

\* update_movement_level: UPDATE users SET <level_field> = ? and its commit,
\* then the response.  A movement type with no level column makes the
\* UPDATE fail (sqlite3.OperationalError): the request ends there, with an
\* error response and the level columns untouched.
UpdateStep(w) ==
    /\ req[w].pc = "update"
    /\ IF level_field(req[w].movement_type) \in LevelColumns
       THEN /\ level' = [level EXCEPT
                           ![req[w].user_id][level_field(req[w].movement_type)] =
                               new_level(req[w].current_xp)]
            /\ req' = [req EXCEPT ![w] = Idle]
       ELSE /\ level' = level
            /\ req' = [req EXCEPT ![w] = Idle]
    /\ UNCHANGED <<ledger, total_xp, hist, pure>>

\* complete_routine: one UPDATE of total_xp and its commit.
CompleteRoutine(w, sess, data) ==
    /\ req[w].pc = "idle"
    /\ hist.started < MaxRequests
    /\ hist' = [hist EXCEPT !.started = @ + 1]
    /\ IF sess = NoSession
       THEN total_xp' = total_xp       \* 401, "Not authenticated"
       ELSE total_xp' = add_xp_total(total_xp, sess,
                               GetInt(data.has_bonus, data.bonus_xp,
                                      DefaultBonus))
    /\ UNCHANGED <<ledger, level, req, pure>>

Next ==
    \/ \E w \in Workers, sess \in Sessions, data \in CompletePayloads :
           CompleteExerciseStart(w, sess, data)
    \/ \E w \in Workers : SaveStep(w)
    \/ \E w \in Workers : AddXpStep(w)
    \/ \E w \in Workers : SelectStep(w)
    \/ \E w \in Workers : UpdateStep(w)
    \/ \E w \in Workers, sess \in Sessions, data \in RoutinePayloads :
           CompleteRoutine(w, sess, data)

Spec == Init /\ [][Next]_vars

(***************************************************************************)
(* Properties of the server.                                               *)
(***************************************************************************)
Quiescent == \A w \in Workers : req[w].pc = "idle"

\* floor(sqrt(S / 50)) over the reals, 0 for S <= 0.
MathLevel(S) ==
    IF S <= 0 THEN 0
    ELSE CHOOSE L \in 0..S : L * L * 50 <= S /\ S < (L + 1) * (L + 1) * 50

\* SELECT COALESCE(SUM(xp_earned), 0) ... WHERE user_id = ?
RECURSIVE SumUserXp(_, _)
SumUserXp(rows, user_id) ==
    IF rows = <<>> THEN 0
    ELSE SumUserXp(SubSeq(rows, 1, Len(rows) - 1), user_id)
         + (IF rows[Len(rows)].user_id = user_id
            THEN rows[Len(rows)].xp_earned ELSE 0)

IsPrefix(a, b) == Len(a) <= Len(b) /\ SubSeq(b, 1, Len(a)) = a

RowOf(r) ==
    [user_id |-> r.user_id, routine_id |-> r.routine_id,
     exercise_name |-> r.exercise_name, movement_type |-> r.movement_type,
     xp_earned |-> r.xp_earned]

\* C1: whenever no complete_exercise request is in progress, every stored
\* level column of every user equals floor(sqrt(S / 50)) of the ledger sum S
\* of that user and movement type, however the requests' steps interleaved.
C1_StoredLevelsMatchLedger ==
    Quiescent =>
        \A u \in Users, m \in MovementTypeSet :
            level[u][level_field(m)] = MathLevel(SumXp(ledger, u, m))

\* C2: once every request has completed, a user's total_xp is the sum of
\* xp_earned over that user's ledger entries.
C2_TotalXpIsLedgerSum ==
    Quiescent => \A u \in Users : total_xp[u] = SumUserXp(ledger, u)

\* C10: the ledger is append-only and each authenticated complete_exercise
\* request appends exactly one entry, carrying the request's user, routine
\* id, exercise name, movement type and XP: every step leaves the old ledger
\* as a prefix of the new one; the step of a request that leaves "save"
\* appends that request's row and no other step changes the ledger; and the
\* ledger always holds one row per authenticated request past its save step.
C10_Step ==
    /\ IsPrefix(ledger, ledger')
    /\ \A w \in Workers :
           (req[w].pc = "save" /\ req'[w].pc # "save")
               => ledger' = Append(ledger, RowOf(req[w]))
    /\ (\A w \in Workers : req[w].pc = "save" => req'[w].pc = "save")
           => ledger' = ledger
    /\ Len(ledger') =
           hist'.exercises - Cardinality({w \in Workers : req'[w].pc = "save"})

C10_LedgerAppendOnly == [][C10_Step]_vars

\* Two users' completions are in the ledger, levels were refreshed, and no
\* request is in progress.
C10_Witness ==
    /\ Len(ledger) = 2
    /\ Quiescent
    /\ \E u \in Users : level[u][level_field(Mobility)] > 0

(***************************************************************************)
(* calculate_level and xp_for_next_level at the level thresholds.          *)
(***************************************************************************)
\* Levels far from zero: Python integers are unbounded, so a level may be
\* any natural number.
LargeLevels == {1000, 46340, 1000000, 8388607, 8388608}

Levels == (0..MaxLevel) \cup LargeLevels

\* xp - 1 on a Python int that is at least 1
PyPred(xp) == PyBig(BigSub(xp.mag, BigOne))

InitLevel ==
    /\ InitDB
    /\ \E L \in Levels : pure = [pc |-> "call", L |-> L, below |-> 0, at |-> 0]

\* calculate_level(xp_for_next_level(L) - 1) and
\* calculate_level(xp_for_next_level(L)) are evaluated.
Thresholds ==
    /\ pure.pc = "call"
    /\ pure' = [pc |-> "done", L |-> pure.L,
                below |-> calculate_level(PyPred(xp_for_next_level(pure.L))),
                at |-> calculate_level(xp_for_next_level(pure.L))]
    /\ UNCHANGED dbvars

NextLevel == Thresholds

SpecLevel == InitLevel /\ [][NextLevel]_vars

\* C3: for every level L >= 0, calculate_level(xp_for_next_level(L) - 1) = L
\* and calculate_level(xp_for_next_level(L)) = L + 1.
C3_ThresholdInverse ==
    pure.pc = "done" => (pure.below = pure.L /\ pure.at = pure.L + 1)

(***************************************************************************)
(* Incremental level updates against full recomputation.                   *)
(***************************************************************************)
\* dbinit.py: level = max(0, math.floor(math.sqrt(total_xp / 50)))
\*                    if total_xp > 0 else 0
migration_level(total) ==
    IF total > 0
    THEN LET fl == IntOfBig(FFloor(FSqrt(TrueDiv(BigOfInt(total),
                                                 XpPerLevelSq))))
         IN  IF fl > 0 THEN fl ELSE 0
    ELSE 0

MigrationTable == [x \in XpSums(MaxEvents) |-> migration_level(x)]

\* dbinit.py: for every user and each of the five movement types, the level
\* column is set from the ledger sum.
migrate_levels(rows) ==
    [u \in Users |->
        [c \in LevelColumns |->
            LET m == CHOOSE t \in MovementTypeSet : level_field(t) = c
            IN  MigrationTable[SumXp(rows, u, m)]]]

\* get_user_stats: calculated_levels, keyed by movement_type.lower()
get_user_stats_levels(rows, user_id) ==
    [k \in {Lower(m) : m \in MovementTypeSet} |->
        LET m == CHOOSE t \in MovementTypeSet : Lower(t) = k
        IN  LevelOfXp(SumXp(rows, user_id, m))]

NoStats == [k \in {Lower(m) : m \in MovementTypeSet} |-> -1]

RECURSIVE SumEvents(_)
SumEvents(ev) ==
    IF ev = {} THEN 0
    ELSE LET e == CHOOSE x \in ev : TRUE
         IN  e.xp + SumEvents(ev \ {e})

InitOrder ==
    /\ InitDB
    /\ \E u \in Users, m \in MovementTypeSet, n \in 1..MaxEvents :
       \E xs \in [1..n -> EventXps] :
           pure = [pc |-> "append", user_id |-> u, movement_type |-> m,
                   pending |-> {[id |-> i, xp |-> xs[i]] : i \in 1..n},
                   total |-> SumEvents({[id |-> i, xp |-> xs[i]] : i \in 1..n}),
                   stats |-> NoStats,
                   stored |-> level]

\* One of the remaining events is appended to the ledger and
\* update_movement_level runs for the pair.
AppendEvent(e) ==
    /\ pure.pc = "append"
    /\ e \in pure.pending
    /\ ledger' = save_completed_exercise(ledger, pure.user_id, None,
                     "Arm Circles", pure.movement_type, e.xp)
    /\ level' = update_movement_level(level, ledger', pure.user_id,
                                      pure.movement_type, e.xp)
    /\ pure' = [pure EXCEPT !.pending = @ \ {e},
                            !.pc = IF pure.pending = {e} THEN "appended"
                                   ELSE "append"]
    /\ UNCHANGED <<total_xp, req, hist>>

\* get_user_stats(user_id) over the final ledger.
GetUserStats ==
    /\ pure.pc = "appended"
    /\ pure' = [pure EXCEPT !.pc = "read",
                            !.stats = get_user_stats_levels(ledger,
                                                            pure.user_id),
                            !.stored = level]
    /\ UNCHANGED dbvars

\* The dbinit migration over the final ledger.
Migrate ==
    /\ pure.pc = "read"
    /\ level' = migrate_levels(ledger)
    /\ pure' = [pure EXCEPT !.pc = "migrated"]
    /\ UNCHANGED <<ledger, total_xp, req, hist>>

NextOrder ==
    \/ \E e \in pure.pending : AppendEvent(e)
    \/ GetUserStats
    \/ Migrate

SpecOrder == InitOrder /\ [][NextOrder]_vars

\* C4: once all events of the pair are appended, in whatever order, with
\* update_movement_level after each, the stored level is the level of the
\* sum of the events' XP; get_user_stats computes the same level over the
\* final ledger, and the dbinit migration leaves every level column as the
\* incremental updates left it.
C4_OrderIndependent ==
    /\ pure.pc \in {"appended", "read"} =>
           level[pure.user_id][level_field(pure.movement_type)]
               = MathLevel(pure.total)
    /\ pure.pc = "read" =>
           pure.stats[Lower(pure.movement_type)]
               = level[pure.user_id][level_field(pure.movement_type)]
    /\ pure.pc = "migrated" => level = pure.stored

\* Three events were appended, the last one does not carry the level of the
\* sum on its own, and the migration has run.
C4_Witness ==
    /\ pure.pc = "migrated"
    /\ Len(ledger) >= 3
    /\ ledger[1].xp_earned # ledger[2].xp_earned
    /\ level[pure.user_id][level_field(pure.movement_type)] >= 2
    /\ MathLevel(ledger[Len(ledger)].xp_earned)
           # level[pure.user_id][level_field(pure.movement_type)]

(***************************************************************************)
(* Sport categories: AIEngine.categorize_sport and the category inference  *)
(* of save_routine.  Exercise names are texts; categories are only         *)
(* compared and stored, and are strings.                                   *)
(***************************************************************************)
\* AIEngine.SPORT_CATEGORIES, in definition order.
SPORT_CATEGORIES == <<
    <<<<"s","o","c","c","e","r">>, "Ball Sports">>,
    <<<<"f","o","o","t","b","a","l","l">>, "Ball Sports">>,
    <<<<"b","a","s","k","e","t","b","a","l","l">>, "Ball Sports">>,
    <<<<"v","o","l","l","e","y","b","a","l","l">>, "Ball Sports">>,
    <<<<"t","e","n","n","i","s">>, "Racket Sports">>,
    <<<<"b","a","d","m","i","n","t","o","n">>, "Racket Sports">>,
    <<<<"t","a","b","l","e"," ","t","e","n","n","i","s">>, "Racket Sports">>,
    <<<<"s","q","u","a","s","h">>, "Racket Sports">>,
    <<<<"p","i","c","k","l","e","b","a","l","l">>, "Racket Sports">>,
    <<<<"r","u","n","n","i","n","g">>, "Endurance">>,
    <<<<"j","o","g","g","i","n","g">>, "Endurance">>,
    <<<<"m","a","r","a","t","h","o","n">>, "Endurance">>,
    <<<<"c","y","c","l","i","n","g">>, "Endurance">>,
    <<<<"s","w","i","m","m","i","n","g">>, "Endurance">>,
    <<<<"t","r","i","a","t","h","l","o","n">>, "Endurance">>,
    <<<<"w","e","i","g","h","t","l","i","f","t","i","n","g">>, "Strength Training">>,
    <<<<"p","o","w","e","r","l","i","f","t","i","n","g">>, "Strength Training">>,
    <<<<"b","o","d","y","b","u","i","l","d","i","n","g">>, "Strength Training">>,
    <<<<"c","r","o","s","s","f","i","t">>, "Strength Training">>,
    <<<<"g","y","m">>, "Strength Training">>,
    <<<<"l","i","f","t","i","n","g">>, "Strength Training">>,
    <<<<"b","o","x","i","n","g">>, "Combat Sports">>,
    <<<<"m","m","a">>, "Combat Sports">>,
    <<<<"k","i","c","k","b","o","x","i","n","g">>, "Combat Sports">>,
    <<<<"m","a","r","t","i","a","l"," ","a","r","t","s">>, "Combat Sports">>,
    <<<<"j","u","d","o">>, "Combat Sports">>,
    <<<<"k","a","r","a","t","e">>, "Combat Sports">>,
    <<<<"y","o","g","a">>, "Flexibility">>,
    <<<<"p","i","l","a","t","e","s">>, "Flexibility">>,
    <<<<"s","t","r","e","t","c","h","i","n","g">>, "Flexibility">>,
    <<<<"g","y","m","n","a","s","t","i","c","s">>, "Flexibility">>,
    <<<<"h","i","k","i","n","g">>, "Outdoor">>,
    <<<<"c","l","i","m","b","i","n","g">>, "Outdoor">>,
    <<<<"r","o","c","k"," ","c","l","i","m","b","i","n","g">>, "Outdoor">>,
    <<<<"b","o","u","l","d","e","r","i","n","g">>, "Outdoor">>,
    <<<<"s","k","i","i","n","g">>, "Outdoor">>,
    <<<<"s","n","o","w","b","o","a","r","d","i","n","g">>, "Outdoor">>,
    <<<<"d","a","n","c","e">>, "Dance">>,
    <<<<"b","a","l","l","e","t">>, "Dance">>,
    <<<<"h","i","p"," ","h","o","p">>, "Dance">>,
    <<<<"z","u","m","b","a">>, "Dance">>
>>

SportKey(i) == SPORT_CATEGORIES[i][1]
SportCategoryOf(i) == SPORT_CATEGORIES[i][2]
SportIdx == 1..Len(SPORT_CATEGORIES)

Other == "Other"

\* for sport_key, category in self.SPORT_CATEGORIES.items(): the scan from
\* entry i on, returning at the first entry that matches.
RECURSIVE PartialMatch(_, _)
PartialMatch(exercise_lower, i) ==
    IF i > Len(SPORT_CATEGORIES) THEN Other
    ELSE IF Contains(exercise_lower, SportKey(i))
            \/ Contains(SportKey(i), exercise_lower)
         THEN SportCategoryOf(i)
         ELSE PartialMatch(exercise_lower, i + 1)

\* Mutant of categorize_sport: the input is trimmed but not lower-cased.
categorize_sport_cased(exercise) ==
    LET exercise_lower == Strip(exercise)
    IN  IF \E i \in SportIdx : SportKey(i) = exercise_lower
        THEN SportCategoryOf(CHOOSE i \in SportIdx : SportKey(i) = exercise_lower)
        ELSE PartialMatch(exercise_lower, 1)

\* AIEngine.categorize_sport(exercise)
categorize_sport(exercise) ==
    LET exercise_lower == Strip(Lower(exercise))
    IN  IF \E i \in SportIdx : SportKey(i) = exercise_lower
        THEN SportCategoryOf(CHOOSE i \in SportIdx : SportKey(i) = exercise_lower)
        ELSE PartialMatch(exercise_lower, 1)

\* save_routine: category_keywords, in definition order.
category_keywords == <<
    <<"Running", <<<<"r","u","n","n","i","n","g">>, <<"r","u","n">>, <<"s","p","r","i","n","t">>, <<"j","o","g">>, <<"m","a","r","a","t","h","o","n">>, <<"5","k">>, <<"1","0","k">>>>>>,
    <<"Weightlifting", <<<<"s","q","u","a","t">>, <<"d","e","a","d","l","i","f","t">>, <<"b","e","n","c","h"," ","p","r","e","s","s">>, <<"o","v","e","r","h","e","a","d"," ","p","r","e","s","s">>, <<"l","i","f","t","i","n","g">>, <<"w","e","i","g","h","t","s">>, <<"b","a","r","b","e","l","l">>, <<"d","u","m","b","b","e","l","l">>>>>>,
    <<"Cycling", <<<<"c","y","c","l","i","n","g">>, <<"b","i","k","e">>, <<"b","i","k","i","n","g">>, <<"s","p","i","n">>>>>>,
    <<"Swimming", <<<<"s","w","i","m","m","i","n","g">>, <<"s","w","i","m">>, <<"f","r","e","e","s","t","y","l","e">>, <<"b","a","c","k","s","t","r","o","k","e">>, <<"b","r","e","a","s","t","s","t","r","o","k","e">>>>>>,
    <<"Tennis", <<<<"t","e","n","n","i","s">>, <<"s","e","r","v","e">>, <<"f","o","r","e","h","a","n","d">>, <<"b","a","c","k","h","a","n","d">>>>>>,
    <<"Basketball", <<<<"b","a","s","k","e","t","b","a","l","l">>, <<"j","u","m","p"," ","s","h","o","t">>, <<"l","a","y","u","p">>, <<"d","u","n","k">>, <<"f","r","e","e"," ","t","h","r","o","w">>>>>>,
    <<"Soccer", <<<<"s","o","c","c","e","r">>, <<"f","o","o","t","b","a","l","l">>, <<"k","i","c","k">>, <<"d","r","i","b","b","l","i","n","g">>>>>>,
    <<"Yoga", <<<<"y","o","g","a">>, <<"d","o","w","n","w","a","r","d"," ","d","o","g">>, <<"w","a","r","r","i","o","r">>, <<"t","r","e","e"," ","p","o","s","e">>, <<"s","u","n"," ","s","a","l","u","t","a","t","i","o","n">>>>>>,
    <<"Martial Arts", <<<<"m","a","r","t","i","a","l"," ","a","r","t","s">>, <<"k","a","r","a","t","e">>, <<"t","a","e","k","w","o","n","d","o">>, <<"j","u","d","o">>, <<"b","o","x","i","n","g">>, <<"k","i","c","k","b","o","x","i","n","g">>, <<"m","m","a">>>>>>,
    <<"Rock Climbing", <<<<"c","l","i","m","b","i","n","g">>, <<"b","o","u","l","d","e","r","i","n","g">>, <<"r","o","c","k"," ","c","l","i","m","b","i","n","g">>>>>>,
    <<"CrossFit", <<<<"c","r","o","s","s","f","i","t">>, <<"w","o","d">>, <<"a","m","r","a","p">>, <<"e","m","o","m">>>>>>,
    <<"Pilates", <<<<"p","i","l","a","t","e","s">>>>>>,
    <<"Dance", <<<<"d","a","n","c","e">>, <<"b","a","l","l","e","t">>, <<"h","i","p"," ","h","o","p">>, <<"c","o","n","t","e","m","p","o","r","a","r","y">>>>>>,
    <<"Golf", <<<<"g","o","l","f">>, <<"s","w","i","n","g">>, <<"p","u","t","t">>, <<"d","r","i","v","e">>>>>>,
    <<"Volleyball", <<<<"v","o","l","l","e","y","b","a","l","l">>, <<"s","p","i","k","e">>, <<"s","e","r","v","e">>, <<"b","u","m","p">>>>>>
>>

GeneralFitness == "General Fitness"

\* any(keyword in exercise_name for keyword in keywords)
AnyKeyword(exercise_name, keywords) ==
    \E j \in 1..Len(keywords) : Contains(exercise_name, keywords[j])

\* for category, keywords in category_keywords.items(): ... break
RECURSIVE InferCategory(_, _, _)
InferCategory(exercise_name, sport_category, i) ==
    IF i > Len(category_keywords) THEN sport_category
    ELSE IF AnyKeyword(exercise_name, category_keywords[i][2])
         THEN category_keywords[i][1]
         ELSE InferCategory(exercise_name, sport_category, i + 1)

\* not sport_category: None and the empty string are falsy.
Falsy(sport_category) == sport_category \in {None, ""}

\* Mutant of save_routine_category: the loop's result is stored as it is,
\* without the default for a name that matches no keyword.
save_routine_category_nodefault(routine_data) ==
    LET sport_category == IF routine_data.has_category
                          THEN routine_data.sport_category
                          ELSE GeneralFitness
    IN  IF sport_category = Other \/ Falsy(sport_category)
        THEN InferCategory(Lower(routine_data.exercise), sport_category, 1)
        ELSE sport_category

\* save_routine: the sport_category value of the INSERT INTO routines.
save_routine_category(routine_data) ==
    LET sport_category == IF routine_data.has_category
                          THEN routine_data.sport_category
                          ELSE GeneralFitness
    IN  IF sport_category = Other \/ Falsy(sport_category)
        THEN LET inferred == InferCategory(Lower(routine_data.exercise),
                                           sport_category, 1)
             IN  IF Falsy(inferred) \/ inferred = Other
                 THEN GeneralFitness
                 ELSE inferred
        ELSE sport_category

\* Exercise names the user may type.
UpperChar(c) ==
    IF \E i \in 1..Len(LowerAlpha) : LowerAlpha[i] = c
    THEN UpperAlpha[CHOOSE i \in 1..Len(LowerAlpha) : LowerAlpha[i] = c]
    ELSE c

Upper(t) == [i \in 1..Len(t) |-> UpperChar(t[i])]

Capitalized(t) ==
    IF t = <<>> THEN t ELSE <<UpperChar(t[1])>> \o SubSeq(t, 2, Len(t))

Soccer == <<"S","o","c","c","e","r">>
CompetitiveRockClimbing == <<"c","o","m","p","e","t","i","t","i","v","e"," ","r","o","c","k"," ","c","l","i","m","b","i","n","g">>
UnderwaterBasketWeaving == <<"u","n","d","e","r","w","a","t","e","r"," ","b","a","s","k","e","t"," ","w","e","a","v","i","n","g">>
TrainingRun5k == <<"5","k"," ","t","r","a","i","n","i","n","g"," ","r","u","n">>

AllKeywords ==
    UNION {{category_keywords[i][2][j] : j \in 1..Len(category_keywords[i][2])} :
               i \in 1..Len(category_keywords)}

BaseNames == {SportKey(i) : i \in SportIdx} \cup AllKeywords

ExerciseNames ==
    BaseNames
    \cup {Capitalized(k) : k \in BaseNames}
    \cup {Upper(k) : k \in BaseNames}
    \cup {<<" ">> \o k \o <<" ", "\n">> : k \in BaseNames}
    \cup {<<"M","y"," ">> \o k \o <<" ","d","a","y">> : k \in BaseNames}
    \cup {SubSeq(k, 1, Len(k) - 1) : k \in BaseNames}
    \cup {SubSeq(k, 2, Len(k)) : k \in BaseNames}
    \cup {Soccer, CompetitiveRockClimbing, UnderwaterBasketWeaving,
          TrainingRun5k, <<>>, <<" ", " ">>, <<"C","h","e","s","s">>}

\* The routine passed to save_routine for an exercise: the sport_category
\* is the classifier's output (as home passes it), another category, the
\* fallback, empty, None, or the key is absent.
RoutineData(exercise, classified) ==
    {[exercise |-> exercise, has_category |-> TRUE, sport_category |-> c] :
         c \in {classified, Other, "", None, "Endurance"}}
    \cup {[exercise |-> exercise, has_category |-> FALSE,
           sport_category |-> None]}

NoRoutine == [exercise |-> <<>>, has_category |-> FALSE, sport_category |-> None]

InitSport ==
    /\ InitDB
    /\ \E e \in ExerciseNames :
           pure = [pc |-> "call", exercise |-> e, classified |-> None,
                   routine_data |-> NoRoutine, stored |-> None]

\* sport_category = self.categorize_sport(exercise), in generate_warmups
CategorizeSport ==
    /\ pure.pc = "call"
    /\ pure' = [pure EXCEPT !.pc = "categorized",
                            !.classified = categorize_sport(pure.exercise)]
    /\ UNCHANGED dbvars

\* save_routine(user_id, routine_data)
SaveRoutine(routine_data) ==
    /\ pure.pc = "categorized"
    /\ pure' = [pure EXCEPT !.pc = "saved",
                            !.routine_data = routine_data,
                            !.stored = save_routine_category(routine_data)]
    /\ UNCHANGED dbvars

NextSport ==
    \/ CategorizeSport
    \/ \E rd \in RoutineData(pure.exercise, pure.classified) : SaveRoutine(rd)

SpecSport == InitSport /\ [][NextSport]_vars

\* Entries of the classifier's table whose key equals t, and those whose key
\* is a substring of t or has t as a substring.
ExactEntries(t) == {i \in SportIdx : SportKey(i) = t}
PartialEntries(t) ==
    {i \in SportIdx : Contains(t, SportKey(i)) \/ Contains(SportKey(i), t)}

MinOf(S) == CHOOSE i \in S : \A j \in S : i <= j

\* C8: with t the trimmed, lower-cased input, categorize_sport returns the
\* table category of t when t is a key; otherwise the category of the first
\* entry, in definition order, whose key is a substring of t or contains t;
\* otherwise "Other".  "Soccer" gives "Ball Sports", "competitive rock
\* climbing" gives "Outdoor", "underwater basket weaving" gives "Other".
C8_CategorizeSport ==
    pure.pc \in {"categorized", "saved"} =>
        LET t == Lower(Strip(pure.exercise))
        IN  /\ ExactEntries(t) # {} =>
                   \A i \in ExactEntries(t) : pure.classified = SportCategoryOf(i)
            /\ (ExactEntries(t) = {} /\ PartialEntries(t) # {}) =>
                   pure.classified = SportCategoryOf(MinOf(PartialEntries(t)))
            /\ (ExactEntries(t) = {} /\ PartialEntries(t) = {}) =>
                   pure.classified = Other
            /\ pure.exercise = Soccer => pure.classified = "Ball Sports"
            /\ pure.exercise = CompetitiveRockClimbing =>
                   pure.classified = "Outdoor"
            /\ pure.exercise = UnderwaterBasketWeaving =>
                   pure.classified = Other

\* A name that is no key and contains two keys: the first in table order wins.
C8_Witness ==
    /\ pure.pc = "categorized"
    /\ pure.exercise = CompetitiveRockClimbing
    /\ pure.classified = "Outdoor"

\* Categories of the broader table with a keyword occurring in the name.
KeywordEntries(name) ==
    {i \in 1..Len(category_keywords) :
         \E j \in 1..Len(category_keywords[i][2]) :
             Contains(name, category_keywords[i][2][j])}

Tok(k, s) == [k |-> k, s |-> s]
LBrace   == Tok("{", <<>>)
RBrace   == Tok("}", <<>>)
LBracket == Tok("[", <<>>)
RBracket == Tok("]", <<>>)
Colon    == Tok(":", <<>>)
Comma    == Tok(",", <<>>)
Space    == Tok("ws", <<" ">>)
Newline  == Tok("ws", <<"\n">>)
TStr(s)  == Tok("str", s)
TNum(s)  == Tok("num", s)
TLit(s)  == Tok("lit", s)
Word(s)  == Tok("word", s)

\* str.strip() on a text of tokens
StripText(text) ==
    IF \A i \in 1..Len(text) : text[i].k = "ws" THEN <<>>
    ELSE LET first == CHOOSE i \in 1..Len(text) :
                          text[i].k # "ws" /\ \A j \in 1..(i-1) : text[j].k = "ws"
             last  == CHOOSE i \in 1..Len(text) :
                          text[i].k # "ws" /\ \A j \in (i+1)..Len(text) : text[j].k = "ws"
         IN  SubSeq(text, first, last)

\* Python values, as json.loads builds them.  s is the text of a str and
\* the source text of a number; n is an int, the integer part of a float,
\* 1 or 0 for a bool; items are a list's elements or a dict's entries.
VNone      == [t |-> "None",  s |-> <<>>, n |-> 0, items |-> <<>>]
VBool(b)   == [t |-> "bool",  s |-> <<>>, n |-> IF b THEN 1 ELSE 0, items |-> <<>>]
VInt(n, s) == [t |-> "int",   s |-> s,    n |-> n, items |-> <<>>]
VFloat(n, s) == [t |-> "float", s |-> s,  n |-> n, items |-> <<>>]
VStr(s)    == [t |-> "str",   s |-> s,    n |-> 0, items |-> <<>>]
VList(xs)  == [t |-> "list",  s |-> <<>>, n |-> 0, items |-> xs]
VDict(es)  == [t |-> "dict",  s |-> <<>>, n |-> 0, items |-> es]
Entry(key, val) == [key |-> key, val |-> val]

Digits == <<"0","1","2","3","4","5","6","7","8","9">>
IsDigit(c) == \E i \in 1..10 : Digits[i] = c
DigitVal(c) == (CHOOSE i \in 1..10 : Digits[i] = c) - 1

RECURSIVE DigitsValue(_)
DigitsValue(ds) ==
    IF ds = <<>> THEN 0
    ELSE DigitsValue(SubSeq(ds, 1, Len(ds) - 1)) * 10 + DigitVal(ds[Len(ds)])

AllDigits(ds) == ds # <<>> /\ \A i \in 1..Len(ds) : IsDigit(ds[i])

\* A JSON number:  -? digits ( . digits )?   An int without a fraction, a
\* float with one; n is the value truncated towards zero.
ParseNumber(s) ==
    LET neg  == s # <<>> /\ s[1] = "-"
        body == IF neg THEN SubSeq(s, 2, Len(s)) ELSE s
        dots == {i \in 1..Len(body) : body[i] = "."}
    IN  IF dots = {}
        THEN IF AllDigits(body)
             THEN [ok |-> TRUE,
                   v |-> VInt(IF neg THEN -DigitsValue(body)
                              ELSE DigitsValue(body), s)]
             ELSE [ok |-> FALSE, v |-> VNone]
        ELSE LET d  == CHOOSE i \in dots : TRUE
                 ip == SubSeq(body, 1, d - 1)
                 fp == SubSeq(body, d + 1, Len(body))
             IN  IF Cardinality(dots) = 1 /\ AllDigits(ip) /\ AllDigits(fp)
                 THEN [ok |-> TRUE,
                       v |-> VFloat(IF neg THEN -DigitsValue(ip)
                                    ELSE DigitsValue(ip), s)]
                 ELSE [ok |-> FALSE, v |-> VNone]

LitNull  == <<"n","u","l","l">>
LitTrue  == <<"t","r","u","e">>
LitFalse == <<"f","a","l","s","e">>

Parsed(v, next) == [ok |-> TRUE, v |-> v, next |-> next]
ParseFail == [ok |-> FALSE, v |-> VNone, next |-> 0]

\* json.loads's recursive descent over the tokens t (whitespace removed),
\* from position i: a value, the elements of an array after "[" or ",",
\* the members of an object after "{" or ",".
RECURSIVE ParseValue(_, _), ParseElements(_, _, _, _), ParseMembers(_, _, _, _)
ParseValue(t, i) ==
    IF i > Len(t) THEN ParseFail
    ELSE IF t[i].k = "str" THEN Parsed(VStr(t[i].s), i + 1)
    ELSE IF t[i].k = "num"
         THEN LET r == ParseNumber(t[i].s)
              IN  IF r.ok THEN Parsed(r.v, i + 1) ELSE ParseFail
    ELSE IF t[i].k = "lit"
         THEN IF t[i].s = LitNull THEN Parsed(VNone, i + 1)
              ELSE IF t[i].s = LitTrue THEN Parsed(VBool(TRUE), i + 1)
              ELSE IF t[i].s = LitFalse THEN Parsed(VBool(FALSE), i + 1)
              ELSE ParseFail
    ELSE IF t[i].k = "[" THEN ParseElements(t, i + 1, <<>>, TRUE)
    ELSE IF t[i].k = "{" THEN ParseMembers(t, i + 1, <<>>, TRUE)
    ELSE ParseFail

ParseElements(t, i, acc, first) ==
    IF i > Len(t) THEN ParseFail
    ELSE IF first /\ t[i].k = "]" THEN Parsed(VList(acc), i + 1)
    ELSE LET r == ParseValue(t, i)
         IN  IF ~r.ok \/ r.next > Len(t) THEN ParseFail
             ELSE IF t[r.next].k = ","
                  THEN ParseElements(t, r.next + 1, Append(acc, r.v), FALSE)
             ELSE IF t[r.next].k = "]"
                  THEN Parsed(VList(Append(acc, r.v)), r.next + 1)
             ELSE ParseFail

ParseMembers(t, i, acc, first) ==
    IF i > Len(t) THEN ParseFail
    ELSE IF first /\ t[i].k = "}" THEN Parsed(VDict(acc), i + 1)
    ELSE IF t[i].k # "str" \/ i + 1 > Len(t) THEN ParseFail
    ELSE IF t[i + 1].k # ":" THEN ParseFail
    ELSE LET r == ParseValue(t, i + 2)
         IN  IF ~r.ok \/ r.next > Len(t) THEN ParseFail
             ELSE IF t[r.next].k = ","
                  THEN ParseMembers(t, r.next + 1,
                                    Append(acc, Entry(t[i].s, r.v)), FALSE)
             ELSE IF t[r.next].k = "}"
                  THEN Parsed(VDict(Append(acc, Entry(t[i].s, r.v))),
                              r.next + 1)
             ELSE ParseFail

SelectSeqNoWs(text) == SelectSeq(text, LAMBDA x : x.k # "ws")

\* json.loads(text): the value, or the exception
json_loads(text) ==
    LET t == SelectSeqNoWs(text)
        r == ParseValue(t, 1)
    IN  IF r.ok /\ r.next = Len(t) + 1
        THEN [ok |-> TRUE, v |-> r.v]
        ELSE [ok |-> FALSE, v |-> VNone]

\* text.find("{") and text.rfind("}"), 0 for -1
FindLBrace(text) ==
    IF \E i \in 1..Len(text) : text[i].k = "{"
    THEN CHOOSE i \in 1..Len(text) :
             text[i].k = "{" /\ \A j \in 1..(i-1) : text[j].k # "{"
    ELSE 0

RFindRBrace(text) ==
    IF \E i \in 1..Len(text) : text[i].k = "}"
    THEN CHOOSE i \in 1..Len(text) :
             text[i].k = "}" /\ \A j \in (i+1)..Len(text) : text[j].k # "}"
    ELSE 0

\* The error messages; the exception's text after "JSON parse error: " is
\* left out.
NoError          == "None"
EmptyOutput      == "Empty model output."
JsonParseError   == "JSON parse error"
NoJsonObject     == "No JSON object found in model output."
CouldNotParse    == "Could not parse the model output."

Loaded(has, obj, err) == [has |-> has, obj |-> obj, error |-> err]

\* Mutant of _safe_json_load: no second attempt on the braces' substring.
safe_json_load_whole_only(text) ==
    IF text = <<>> THEN Loaded(FALSE, VNone, EmptyOutput)
    ELSE IF json_loads(text).ok
         THEN Loaded(TRUE, json_loads(text).v, NoError)
         ELSE Loaded(FALSE, VNone, NoJsonObject)

\* AIEngine._safe_json_load(text): (value, None) or (None, message)
safe_json_load(text) ==
    IF text = <<>> THEN Loaded(FALSE, VNone, EmptyOutput)
    ELSE IF json_loads(text).ok
         THEN Loaded(TRUE, json_loads(text).v, NoError)
         ELSE LET start == FindLBrace(text)
                  end   == RFindRBrace(text)
              IN  IF start # 0 /\ end # 0 /\ end > start
                  THEN LET candidate == SubSeq(text, start, end)
                       IN  IF json_loads(candidate).ok
                           THEN Loaded(TRUE, json_loads(candidate).v, NoError)
                           ELSE Loaded(FALSE, VNone, JsonParseError)
                  ELSE Loaded(FALSE, VNone, NoJsonObject)

(***************************************************************************)
(* AIEngine.generate_warmups: from the provider's text to the routine.     *)
(***************************************************************************)
KeyName            == <<"n","a","m","e">>
KeyDurationSeconds == <<"d","u","r","a","t","i","o","n","_","s","e","c","o","n","d","s">>
KeyDuration        == <<"d","u","r","a","t","i","o","n">>
KeyNotes           == <<"n","o","t","e","s">>
KeyMovementType    == <<"m","o","v","e","m","e","n","t","_","t","y","p","e">>
KeyWarmups         == <<"w","a","r","m","u","p","s">>
KeySafety          == <<"s","a","f","e","t","y">>

\* d.get(key, default): the value of the last member with the key
Get(d, key, default) ==
    LET hits == {i \in 1..Len(d.items) : d.items[i].key = key}
    IN  IF hits = {} THEN default
        ELSE d.items[CHOOSE i \in hits : \A j \in hits : j <= i].val

\* str(v).  ints and floats print as JSON wrote them (numbers are written
\* in Python's own form); a non-empty list or dict prints as "[...]",
\* "{...}".
Str(v) ==
    IF v.t = "str" THEN v.s
    ELSE IF v.t = "None" THEN <<"N","o","n","e">>
    ELSE IF v.t = "bool" THEN (IF v.n = 1 THEN <<"T","r","u","e">> ELSE <<"F","a","l","s","e">>)
    ELSE IF v.t \in {"int", "float"} THEN v.s
    ELSE IF v.t = "list"
         THEN (IF v.items = <<>> THEN <<"[","]">> ELSE <<"[",".",".",".","]">>)
    ELSE (IF v.items = <<>> THEN <<"{","}">> ELSE <<"{",".",".",".","}">>)

\* int(d) of a str: surrounding whitespace, a sign, decimal digits
IntOfText(s) ==
    LET t    == Strip(s)
        sgn  == t # <<>> /\ t[1] \in {"-", "+"}
        body == IF sgn THEN SubSeq(t, 2, Len(t)) ELSE t
    IN  IF AllDigits(body)
        THEN [ok |-> TRUE,
              n |-> IF sgn /\ t[1] = "-" THEN -DigitsValue(body)
                    ELSE DigitsValue(body)]
        ELSE [ok |-> FALSE, n |-> 0]

\* try: d_int = int(d)  except Exception: d_int = 0
IntOrZero(d) ==
    IF d.t \in {"int", "bool", "float"} THEN d.n
    ELSE IF d.t = "str"
         THEN (IF IntOfText(d.s).ok THEN IntOfText(d.s).n ELSE 0)
    ELSE 0

\* if movement_type not in valid_types: movement_type = "Mobility"
ValidType(movement_type) ==
    IF movement_type \in MovementTypeSet THEN movement_type ELSE Mobility

\* Mutant of KeepMove: a duration of zero is kept.
KeepMoveNonNegative(n, d_int) == n # <<>> /\ d_int >= 0

\* if n and d_int > 0
KeepMove(n, d_int) == n # <<>> /\ d_int > 0

Move(name, duration, notes, movement_type) ==
    [name |-> name, duration |-> duration, notes |-> notes,
     movement_type |-> movement_type]

\* The body of the loop over items: the warmups list after one item.
AppendItem(warmups, item) ==
    IF item.t # "dict" THEN warmups
    ELSE LET n     == Strip(Str(Get(item, KeyName, VStr(<<>>))))
             d     == Get(item, KeyDurationSeconds,
                          Get(item, KeyDuration, VInt(0, <<"0">>)))
             d_int == IntOrZero(d)
             notes == Strip(Str(Get(item, KeyNotes, VStr(<<>>))))
             movement_type ==
                 ValidType(Strip(Str(Get(item, KeyMovementType, VStr(Mobility)))))
         IN  IF KeepMove(n, d_int)
             THEN Append(warmups, Move(n, d_int, notes, movement_type))
             ELSE warmups

\* for item in items
RECURSIVE ExtractWarmups(_, _)
ExtractWarmups(items, k) ==
    IF k = 0 THEN <<>>
    ELSE AppendItem(ExtractWarmups(items, k - 1), items[k])

\* Mutant of ResultError: the parser's message alone.
ResultErrorOfParser(parse_error) == parse_error

\* parse_error or "Could not parse the model output."
ResultError(parse_error) ==
    IF parse_error = NoError THEN CouldNotParse ELSE parse_error

\* resp.output_text: a text, or None
Response(has_text, text) == [has_text |-> has_text, text |-> text]

\* generate_warmups, after the provider's response resp
generate_warmups(exercise, muscle_groups, resp) ==
    LET raw_text == StripText(IF resp.has_text THEN resp.text ELSE <<>>)
        loaded   == safe_json_load(raw_text)
        is_dict  == loaded.has /\ loaded.obj.t = "dict"
        safety   == IF is_dict
                    THEN Strip(Str(Get(loaded.obj, KeySafety, VStr(<<>>))))
                    ELSE <<>>
        items    == IF is_dict
                    THEN Get(loaded.obj, KeyWarmups, VList(<<>>))
                    ELSE VList(<<>>)
        warmups  == IF items.t = "list"
                    THEN ExtractWarmups(items.items, Len(items.items))
                    ELSE <<>>
    IN  IF warmups = <<>>
        THEN [exercise |-> exercise,
              sport_category |-> categorize_sport(exercise),
              muscle_groups |-> muscle_groups,
              warmups |-> <<>>, safety |-> <<>>, raw |-> raw_text,
              error |-> ResultError(loaded.error)]
        ELSE [exercise |-> exercise,
              sport_category |-> categorize_sport(exercise),
              muscle_groups |-> muscle_groups,
              warmups |-> warmups, safety |-> safety, raw |-> raw_text,
              error |-> NoError]

(***************************************************************************)
(* Texts the provider may return: documents written out as JSON, whole,    *)
(* padded, inside commentary, damaged; and texts that hold no document.    *)
(***************************************************************************)
\* Elements of one warmups array.
MaxItems == 2

RECURSIVE JoinComma(_)
JoinComma(parts) ==
    IF parts = <<>> THEN <<>>
    ELSE IF Len(parts) = 1 THEN parts[1]
    ELSE JoinComma(SubSeq(parts, 1, Len(parts) - 1))
             \o <<Comma, Space>> \o parts[Len(parts)]

Object(members) == <<LBrace>> \o JoinComma(members) \o <<RBrace>>
Array(elements) == <<LBracket>> \o JoinComma(elements) \o <<RBracket>>

\* Elements of the warmups array: the JSON text of each, and what it says:
\* whether it is a mapping, its name, its duration as an integer, its
\* notes and its movement type, as texts, before any trimming.
ItemKinds == <<
    \* a complete move
    [text |-> Object(<<<<TStr(<<"n","a","m","e">>), Colon, TStr(<<"A","r","m"," ","C","i","r","c","l","e","s">>)>>,
               <<TStr(<<"d","u","r","a","t","i","o","n","_","s","e","c","o","n","d","s">>), Colon, TNum(<<"3","0">>)>>,
               <<TStr(<<"n","o","t","e","s">>), Colon, TStr(<<"s","l","o","w">>)>>,
               <<TStr(<<"m","o","v","e","m","e","n","t","_","t","y","p","e">>), Colon, TStr(<<"M","o","b","i","l","i","t","y">>)>>>>),
     mapping |-> TRUE, name |-> <<"A","r","m"," ","C","i","r","c","l","e","s">>, dur |-> 30,
     notes |-> <<"s","l","o","w">>, mtype |-> <<"M","o","b","i","l","i","t","y">>],
    \* a duration of zero
    [text |-> Object(<<<<TStr(<<"n","a","m","e">>), Colon, TStr(<<"P","l","a","n","k">>)>>,
               <<TStr(<<"d","u","r","a","t","i","o","n","_","s","e","c","o","n","d","s">>), Colon, TNum(<<"0">>)>>,
               <<TStr(<<"m","o","v","e","m","e","n","t","_","t","y","p","e">>), Colon, TStr(<<"S","t","a","b","i","l","i","t","y">>)>>>>),
     mapping |-> TRUE, name |-> <<"P","l","a","n","k">>, dur |-> 0,
     notes |-> <<>>, mtype |-> <<"S","t","a","b","i","l","i","t","y">>],
    \* no name
    [text |-> Object(<<<<TStr(<<"d","u","r","a","t","i","o","n","_","s","e","c","o","n","d","s">>), Colon, TNum(<<"3","0">>)>>,
               <<TStr(<<"m","o","v","e","m","e","n","t","_","t","y","p","e">>), Colon, TStr(<<"P","o","w","e","r">>)>>>>),
     mapping |-> TRUE, name |-> <<>>, dur |-> 30,
     notes |-> <<>>, mtype |-> <<"P","o","w","e","r">>],
    \* not a mapping
    [text |-> <<TStr(<<"J","u","m","p","i","n","g"," ","J","a","c","k","s">>)>>,
     mapping |-> FALSE, name |-> <<>>, dur |-> 0,
     notes |-> <<>>, mtype |-> <<"M","o","b","i","l","i","t","y">>],
    \* a padded name, the duration as a string under "duration", an unknown type
    [text |-> Object(<<<<TStr(<<"n","a","m","e">>), Colon, TStr(<<" ","L","e","g"," ","S","w","i","n","g","s"," ">>)>>,
               <<TStr(<<"d","u","r","a","t","i","o","n">>), Colon, TStr(<<"4","5">>)>>,
               <<TStr(<<"m","o","v","e","m","e","n","t","_","t","y","p","e">>), Colon, TStr(<<"E","x","p","l","o","s","i","v","e">>)>>>>),
     mapping |-> TRUE, name |-> <<" ","L","e","g"," ","S","w","i","n","g","s"," ">>, dur |-> 45,
     notes |-> <<>>, mtype |-> <<"E","x","p","l","o","s","i","v","e">>],
    \* a fractional duration and a padded type
    [text |-> Object(<<<<TStr(<<"n","a","m","e">>), Colon, TStr(<<"B","o","x"," ","J","u","m","p">>)>>,
               <<TStr(<<"d","u","r","a","t","i","o","n","_","s","e","c","o","n","d","s">>), Colon, TNum(<<"2","0",".","9">>)>>,
               <<TStr(<<"m","o","v","e","m","e","n","t","_","t","y","p","e">>), Colon, TStr(<<" ","P","o","w","e","r"," ">>)>>>>),
     mapping |-> TRUE, name |-> <<"B","o","x"," ","J","u","m","p">>, dur |-> 20,
     notes |-> <<>>, mtype |-> <<" ","P","o","w","e","r"," ">>],
    \* duration_seconds present and null
    [text |-> Object(<<<<TStr(<<"n","a","m","e">>), Colon, TStr(<<"B","i","r","d"," ","D","o","g">>)>>,
               <<TStr(<<"d","u","r","a","t","i","o","n","_","s","e","c","o","n","d","s">>), Colon, TLit(LitNull)>>,
               <<TStr(<<"d","u","r","a","t","i","o","n">>), Colon, TNum(<<"3","0">>)>>,
               <<TStr(<<"m","o","v","e","m","e","n","t","_","t","y","p","e">>), Colon, TStr(<<"B","a","l","a","n","c","e">>)>>>>),
     mapping |-> TRUE, name |-> <<"B","i","r","d"," ","D","o","g">>, dur |-> 0,
     notes |-> <<>>, mtype |-> <<"B","a","l","a","n","c","e">>],
    \* a duration that is no integer
    [text |-> Object(<<<<TStr(<<"n","a","m","e">>), Colon, TStr(<<"S","k","i","p","s">>)>>,
               <<TStr(<<"d","u","r","a","t","i","o","n","_","s","e","c","o","n","d","s">>), Colon, TStr(<<"3","0","s">>)>>,
               <<TStr(<<"m","o","v","e","m","e","n","t","_","t","y","p","e">>), Colon, TStr(<<"A","c","t","i","v","a","t","i","o","n">>)>>>>),
     mapping |-> TRUE, name |-> <<"S","k","i","p","s">>, dur |-> 0,
     notes |-> <<>>, mtype |-> <<"A","c","t","i","v","a","t","i","o","n">>],
    \* a blank name
    [text |-> Object(<<<<TStr(<<"n","a","m","e">>), Colon, TStr(<<" "," ">>)>>,
               <<TStr(<<"d","u","r","a","t","i","o","n","_","s","e","c","o","n","d","s">>), Colon, TNum(<<"1","5">>)>>>>),
     mapping |-> TRUE, name |-> <<" "," ">>, dur |-> 15,
     notes |-> <<>>, mtype |-> <<"M","o","b","i","l","i","t","y">>],
    \* no movement type
    [text |-> Object(<<<<TStr(<<"n","a","m","e">>), Colon, TStr(<<"G","l","u","t","e"," ","B","r","i","d","g","e">>)>>,
               <<TStr(<<"d","u","r","a","t","i","o","n","_","s","e","c","o","n","d","s">>), Colon, TNum(<<"4","0">>)>>>>),
     mapping |-> TRUE, name |-> <<"G","l","u","t","e"," ","B","r","i","d","g","e">>, dur |-> 40,
     notes |-> <<>>, mtype |-> <<"M","o","b","i","l","i","t","y">>],
    \* a negative duration
    [text |-> Object(<<<<TStr(<<"n","a","m","e">>), Colon, TStr(<<"L","u","n","g","e">>)>>,
               <<TStr(<<"d","u","r","a","t","i","o","n","_","s","e","c","o","n","d","s">>), Colon, TNum(<<"-","5">>)>>,
               <<TStr(<<"m","o","v","e","m","e","n","t","_","t","y","p","e">>), Colon, TStr(<<"P","o","w","e","r">>)>>>>),
     mapping |-> TRUE, name |-> <<"L","u","n","g","e">>, dur |-> -5,
     notes |-> <<>>, mtype |-> <<"P","o","w","e","r">>],
    \* a null name, a duration of true, a number as type
    [text |-> Object(<<<<TStr(<<"n","a","m","e">>), Colon, TLit(LitNull)>>,
               <<TStr(<<"d","u","r","a","t","i","o","n","_","s","e","c","o","n","d","s">>), Colon, TLit(LitTrue)>>,
               <<TStr(<<"m","o","v","e","m","e","n","t","_","t","y","p","e">>), Colon, TNum(<<"3">>)>>>>),
     mapping |-> TRUE, name |-> <<"N","o","n","e">>, dur |-> 1,
     notes |-> <<>>, mtype |-> <<"3">>]
>>

KindSeqs == UNION {[1..n -> 1..Len(ItemKinds)] : n \in 0..MaxItems}

SafetyText == <<"S","t","o","p"," ","i","f"," ","p","a","i","n",".">>

WarmupsArray(kinds) == Array([i \in 1..Len(kinds) |-> ItemKinds[kinds[i]].text])

\* The document of a shape.
Document(shape, kinds) ==
    IF shape = "object"
    THEN Object(<< <<TStr(KeyWarmups), Colon>> \o WarmupsArray(kinds),
                   <<TStr(KeySafety), Colon, TStr(SafetyText)>> >>)
    ELSE IF shape = "array" THEN WarmupsArray(kinds)
    ELSE IF shape = "nowarmups"
         THEN Object(<< <<TStr(KeySafety), Colon, TStr(SafetyText)>> >>)
    ELSE IF shape = "notlist"
         THEN Object(<< <<TStr(KeyWarmups), Colon, TStr(SafetyText)>> >>)
    ELSE <<TNum(<<"4","2">>)>>

\* The text around a document.
Wrap(wrap, doc) ==
    IF wrap = "plain" THEN doc
    ELSE IF wrap = "padded" THEN <<Space, Newline>> \o doc \o <<Newline>>
    ELSE IF wrap = "fenced"
         THEN <<Word(<<"S","u","r","e","!">>), Newline, Word(<<"~","~","~","j","s","o","n">>), Newline>>
                  \o doc \o <<Newline, Word(<<"~","~","~">>)>>
    ELSE IF wrap = "trailing"
         THEN doc \o <<Newline, Word(<<"E","n","j","o","y","!">>), Newline>>
    ELSE IF wrap = "stray"
         THEN <<Word(<<"N","o","t","e">>), Space, LBrace, Word(<<"d","r","a","f","t">>), RBrace, Newline>>
                  \o doc
    ELSE \* "truncated": the text stops before the last token
         SubSeq(doc, 1, Len(doc) - 1)

\* Texts that hold no document.
Special(shape) ==
    IF shape = "empty" THEN <<>>
    ELSE IF shape = "blank" THEN <<Space, Newline>>
    ELSE IF shape = "prose"
         THEN <<Word(<<"S","o","r","r","y",",">>), Space, Word(<<"n","o",".">>), Newline>>
    ELSE \* "reversed"
         <<RBrace, Space, LBrace>>

Recipe(shape, wrap, kinds) == [shape |-> shape, wrap |-> wrap, kinds |-> kinds]

Recipes ==
    {Recipe("object", w, ks) :
         w \in {"plain", "padded", "fenced", "trailing", "stray", "truncated"},
         ks \in KindSeqs}
    \cup {Recipe("array", w, ks) : w \in {"plain", "padded"}, ks \in KindSeqs}
    \cup {Recipe(s, w, <<>>) :
              s \in {"nowarmups", "notlist", "scalar"}, w \in {"plain", "padded"}}
    \cup {Recipe(s, "plain", <<>>) :
              s \in {"absent", "empty", "blank", "prose", "reversed"}}

\* resp of a recipe; "absent" is an output_text of None.
ResponseOf(r) ==
    IF r.shape = "absent" THEN Response(FALSE, <<>>)
    ELSE IF r.shape \in {"empty", "blank", "prose", "reversed"}
         THEN Response(TRUE, Special(r.shape))
    ELSE Response(TRUE, Wrap(r.wrap, Document(r.shape, r.kinds)))

MuscleGroups == <<"l","e","g","s">>

NoResult ==
    [exercise |-> <<>>, sport_category |-> None, muscle_groups |-> <<>>,
     warmups |-> <<>>, safety |-> <<>>, raw |-> <<>>, error |-> NoError]

InitGen ==
    /\ InitDB
    /\ \E r \in Recipes :
           pure = [pc |-> "call", recipe |-> r, resp |-> ResponseOf(r),
                   result |-> NoResult]

\* generate_warmups(exercise, muscle_groups) with the provider answering resp
GenerateWarmups ==
    /\ pure.pc = "call"
    /\ pure' = [pure EXCEPT !.pc = "done",
                            !.result = generate_warmups(Soccer, MuscleGroups,
                                                        pure.resp)]
    /\ UNCHANGED dbvars

NextGen == GenerateWarmups

SpecGen == InitGen /\ [][NextGen]_vars

(***************************************************************************)
(* Properties of generate_warmups.                                         *)
(***************************************************************************)
\* The text holds a document that the parser reaches: as the whole text, or
\* between the first "{" and the last "}" once the whole text has failed.
WholeParses(r)   == r.shape \in {"object", "array", "nowarmups", "notlist", "scalar"}
                        /\ r.wrap \in {"plain", "padded"}
BracesParse(r)   == r.shape = "object" /\ r.wrap \in {"fenced", "trailing"}
\* The document is an object with a warmups array.
HasWarmupsArray(r) == r.shape = "object" /\ (WholeParses(r) \/ BracesParse(r))

TrimmedType(k)     == Strip(ItemKinds[k].mtype)

\* The element is a mapping with a non-empty trimmed name and a strictly
\* positive coerced duration.
KindKept(k) ==
    /\ ItemKinds[k].mapping
    /\ Strip(ItemKinds[k].name) # <<>>
    /\ ItemKinds[k].dur > 0

\* The element's movement_type when it is one of the five, else Mobility.
TypeAsWritten(k) ==
    IF ItemKinds[k].mtype \in MovementTypeSet THEN ItemKinds[k].mtype
    ELSE Mobility

\* The element's trimmed movement_type when that is one of the five, else
\* Mobility.
TypeTrimmed(k) ==
    IF TrimmedType(k) \in MovementTypeSet THEN TrimmedType(k) ELSE Mobility

\* The kept elements of an array, in order: name, duration and movement
\* type, the type taken as written or trimmed.
RECURSIVE KeptMoves(_, _)
KeptMoves(kinds, trimmed) ==
    IF kinds = <<>> THEN <<>>
    ELSE LET k    == kinds[Len(kinds)]
             rest == KeptMoves(SubSeq(kinds, 1, Len(kinds) - 1), trimmed)
         IN  IF KindKept(k)
             THEN Append(rest, [name |-> Strip(ItemKinds[k].name),
                                duration |-> ItemKinds[k].dur,
                                movement_type |-> IF trimmed THEN TypeTrimmed(k)
                                                  ELSE TypeAsWritten(k)])
             ELSE rest

NameDurationType(warmups) ==
    [i \in 1..Len(warmups) |->
        [name |-> warmups[i].name, duration |-> warmups[i].duration,
         movement_type |-> warmups[i].movement_type]]

\* C5 as stated: the warmups list is the subsequence of the elements of the
\* document's warmups array that are mappings with a non-empty trimmed name
\* and a strictly positive coerced duration, each carrying the element's
\* movement_type when it is one of the five and Mobility otherwise.
C5_AsStated ==
    (pure.pc = "done" /\ HasWarmupsArray(pure.recipe)) =>
        NameDurationType(pure.result.warmups)
            = KeptMoves(pure.recipe.kinds, FALSE)

\* C5, amended: as C5, with each kept move carrying the element's
\* movement_type converted to text and trimmed when that is one of the
\* five, and Mobility otherwise.
C5_FilteredWarmups ==
    (pure.pc = "done" /\ HasWarmupsArray(pure.recipe)) =>
        NameDurationType(pure.result.warmups)
            = KeptMoves(pure.recipe.kinds, TRUE)

\* A document inside commentary whose array has a dropped element and a
\* kept element with a padded movement type.
C5_Witness ==
    /\ pure.pc = "done"
    /\ pure.recipe.shape = "object"
    /\ pure.recipe.wrap = "fenced"
    /\ pure.recipe.kinds = <<2, 6>>
    /\ Len(pure.result.warmups) = 1
    /\ pure.result.warmups[1].movement_type = Power
    /\ pure.result.warmups[1].duration = 20

\* C6: in every result of generate_warmups the error is set if and only if
\* the warmups sequence is empty.
C6_ErrorIffEmpty ==
    pure.pc = "done" =>
        (pure.result.error # NoError <=> pure.result.warmups = <<>>)

\* A document that parses and whose moves are all filtered out: the error
\* is set although the parser reported none.
C6_Witness ==
    /\ pure.pc = "done"
    /\ pure.recipe.shape = "object"
    /\ pure.recipe.wrap = "plain"
    /\ pure.recipe.kinds = <<2, 3>>
    /\ pure.result.warmups = <<>>
    /\ pure.result.error = CouldNotParse

ProviderText(resp) == IF resp.has_text THEN resp.text ELSE <<>>

\* The stages of parsing, on the text as the parser is given it: empty
\* gives the 'empty output' error; a text that parses whole, or between its
\* first "{" and last "}", gives its document (the kept moves of an object
\* with a warmups array, with no parse error); any other text gives a
\* 'malformed output' error.  Every failing case has empty warmups and the
\* error attached.
StagedParsing(text) ==
    LET r   == pure.recipe
        res == pure.result
    IN  /\ text = <<>> =>
               (res.error = EmptyOutput /\ res.warmups = <<>>)
        /\ (text # <<>> /\ (WholeParses(r) \/ BracesParse(r))) =>
               /\ res.error \in {NoError, CouldNotParse}
               /\ HasWarmupsArray(r) =>
                      NameDurationType(res.warmups) = KeptMoves(r.kinds, TRUE)
        /\ (text # <<>> /\ ~WholeParses(r) /\ ~BracesParse(r)) =>
               (res.error \in {JsonParseError, NoJsonObject}
                    /\ res.warmups = <<>>)

\* C7 as stated: the stages apply to the provider's text, and raw is the
\* provider's text.
C7_AsStated ==
    pure.pc = "done" =>
        /\ StagedParsing(ProviderText(pure.resp))
        /\ pure.result.error \in {EmptyOutput, JsonParseError, NoJsonObject}
               => pure.result.raw = ProviderText(pure.resp)

\* C7, amended: the stages apply to the provider's text with leading and
\* trailing whitespace removed (a text of whitespace only counts as empty),
\* and raw is that trimmed text.
C7_StagedParsing ==
    pure.pc = "done" =>
        /\ StagedParsing(StripText(ProviderText(pure.resp)))
        /\ pure.result.raw = StripText(ProviderText(pure.resp))

\* The whole text fails to parse and the document between the braces is
\* used.
C7_Witness ==
    /\ pure.pc = "done"
    /\ pure.recipe.shape = "object"
    /\ pure.recipe.wrap = "trailing"
    /\ pure.recipe.kinds = <<1>>
    /\ pure.result.warmups = <<Move(<<"A","r","m"," ","C","i","r","c","l","e","s">>,
                                    30, <<"s","l","o","w">>, Mobility)>>
    /\ pure.result.safety = SafetyText
    /\ pure.result.error = NoError

(***************************************************************************)
(* POST / (home): the form, the engine, the provider call inside           *)
(* generate_warmups, and save_routine.  The routines table and the         *)
(* request's position are fields of the record pure.                       *)
(***************************************************************************)
\* POST / requests in one behaviour.
MaxPosts == 2

\* What self.client.responses.create does: it raises, or returns resp.
Outcome(fails, resp) == [fails |-> fails, resp |-> resp]

ProviderOutcomes ==
    {Outcome(TRUE, Response(FALSE, <<>>))}
    \cup {Outcome(FALSE, ResponseOf(r)) :
              r \in {Recipe("object", "plain", <<1>>),
                     Recipe("object", "fenced", <<6, 2>>),
                     Recipe("object", "plain", <<2>>),
                     Recipe("prose", "plain", <<>>)}}

\* Mutant of generate_warmups_call: a failed provider call is caught and
\* tried again, and a second failure is returned as an error result.
generate_warmups_call_retry(exercise, muscle_groups, outcome, calls) ==
    IF outcome.fails
    THEN [raised |-> FALSE,
          result |-> generate_warmups(exercise, muscle_groups,
                                      Response(FALSE, <<>>)),
          calls |-> calls + 2]
    ELSE [raised |-> FALSE,
          result |-> generate_warmups(exercise, muscle_groups, outcome.resp),
          calls |-> calls + 1]

\* generate_warmups(exercise, muscle_groups, user_data) with its provider
\* call: resp = self.client.responses.create(...) is one statement outside
\* any try; calls counts the invocations of the provider.
generate_warmups_call(exercise, muscle_groups, outcome, calls) ==
    IF outcome.fails
    THEN [raised |-> TRUE, result |-> NoResult, calls |-> calls + 1]
    ELSE [raised |-> FALSE,
          result |-> generate_warmups(exercise, muscle_groups, outcome.resp),
          calls |-> calls + 1]

\* home: if result.get("warmups") and not result.get("error"):
\*           routine_id = save_routine(session["user_id"], result)
\* routine_json stands for json.dumps(routine_data), which is only stored.
home_save(routines, user_id, result) ==
    IF result.warmups # <<>> /\ result.error = NoError
    THEN Append(routines,
                [user_id |-> user_id, routine_json |-> result,
                 sport_category |->
                     save_routine_category(
                         [exercise |-> result.exercise, has_category |-> TRUE,
                          sport_category |-> result.sport_category])])
    ELSE routines

\* request.form of POST /
Forms ==
    {[exercise |-> e, muscle_groups |-> m] :
         e \in {Soccer, <<" ">> \o TrainingRun5k, <<" ">>},
         m \in {MuscleGroups, <<>>}}

InitHome ==
    /\ InitDB
    /\ \E has_key \in BOOLEAN :
           pure = [pc |-> "idle", last |-> "none", posts |-> 0,
                   has_key |-> has_key, engine |-> "none",
                   user_id |-> NoSession, exercise |-> <<>>,
                   muscle_groups |-> <<>>, gen_calls |-> 0, calls |-> 0,
                   saved_before |-> 0, result |-> NoResult, raised |-> FALSE,
                   routines |-> <<>>]

\* home, up to the call of generate_warmups: the session check, the form,
\* get_engine() (AIEngine's constructor raises without OPENAI_API_KEY).
HomePost(sess, form) ==
    /\ pure.pc = "idle"
    /\ pure.posts < MaxPosts
    /\ LET exercise      == Strip(form.exercise)
           muscle_groups == Strip(form.muscle_groups)
           began == [pure EXCEPT !.posts = @ + 1, !.user_id = sess,
                                 !.exercise = exercise,
                                 !.muscle_groups = muscle_groups,
                                 !.saved_before = Len(pure.routines),
                                 !.result = NoResult, !.raised = FALSE]
       IN  IF sess = NoSession
           THEN pure' = [began EXCEPT !.last = "redirect"]
           ELSE IF exercise = <<>> \/ muscle_groups = <<>>
           THEN pure' = [began EXCEPT !.last = "form_error"]
           ELSE IF pure.engine = "none" /\ ~pure.has_key
           THEN pure' = [began EXCEPT !.last = "failed", !.raised = TRUE]
           ELSE pure' = [began EXCEPT !.pc = "provider", !.last = "none",
                                      !.engine = "ready",
                                      !.gen_calls = @ + 1]
    /\ UNCHANGED dbvars

\* home after generate_warmups returned or raised (r): an exception leaves
\* the handler, a result is saved if it has warmups and no error.
home_finish(p, r) ==
    IF r.raised
    THEN [p EXCEPT !.pc = "idle", !.last = "failed", !.raised = TRUE,
                   !.calls = r.calls]
    ELSE [p EXCEPT !.pc = "idle",
                   !.last = IF r.result.warmups # <<>> /\ r.result.error = NoError
                            THEN "saved" ELSE "shown",
                   !.calls = r.calls, !.result = r.result,
                   !.routines = home_save(p.routines, p.user_id, r.result)]

\* generate_warmups from its provider call on, and the rest of home.
HomeGenerate(outcome) ==
    /\ pure.pc = "provider"
    /\ pure' = home_finish(pure,
                   generate_warmups_call(pure.exercise, pure.muscle_groups,
                                         outcome, pure.calls))
    /\ UNCHANGED dbvars

NextHome ==
    \/ \E sess \in Sessions, form \in Forms : HomePost(sess, form)
    \/ \E outcome \in ProviderOutcomes : HomeGenerate(outcome)

SpecHome == InitHome /\ [][NextHome]_vars

\* C11: each generate_warmups call invokes the provider exactly once (the
\* provider has been invoked once per finished call, and not yet for the
\* call in progress); when the call fails the failure propagates, no result
\* is produced and the home request persists no routine.
C11_ProviderOnceFailurePropagates ==
    /\ pure.calls + (IF pure.pc = "provider" THEN 1 ELSE 0) = pure.gen_calls
    /\ (pure.pc = "idle" /\ pure.last = "failed") =>
           /\ pure.raised
           /\ pure.result = NoResult
           /\ Len(pure.routines) = pure.saved_before

\* A request saved a routine, and the provider call of the next request
\* failed.
C11_Witness ==
    /\ pure.pc = "idle"
    /\ pure.last = "failed"
    /\ pure.calls = 2
    /\ Len(pure.routines) = 1

(***************************************************************************)
(* calculate_level on pairs of XP values.                                  *)
(***************************************************************************)
\* x <= y on Python ints
PyLeq(x, y) ==
    IF x.neg THEN (y.neg => BigLeq(y.mag, x.mag))
    ELSE ~y.neg /\ BigLeq(x.mag, y.mag)

\* XP far from zero: around the thresholds of large levels, around 2^53
\* (where floats stop holding every integer) and up to the largest SQLite
\* integer, 2^63 - 1.
LargeXps ==
    {xp_for_next_level(L) : L \in LargeLevels}
    \cup {PyPred(xp_for_next_level(L)) : L \in LargeLevels}
    \cup {PyBig(BigPow2(53)), PyBig(BigAdd(BigPow2(53), BigOne)),
          PyBig(BigPow2(62)), PyBig(BigSub(BigPow2(63), BigOne))}

\* Negative XP, which the ledger accepts (an xp_earned below zero).
NegativeXps == {PyInt(-50), PyInt(-200), PyInt(-1000000)}

XpSamples == {PyInt(n) : n \in (-2)..MaxXp} \cup NegativeXps \cup LargeXps

\* calculate_level over the samples, computed once.
SampleLevels == [x \in XpSamples |-> calculate_level(x)]

InitMono ==
    /\ InitDB
    /\ \E x \in XpSamples, y \in XpSamples :
           /\ PyLeq(x, y)
           /\ pure = [pc |-> "call", x |-> x, y |-> y, lx |-> 0, ly |-> 0]

\* calculate_level(x) and calculate_level(y) are evaluated.
LevelsOfPair ==
    /\ pure.pc = "call"
    /\ pure' = [pure EXCEPT !.pc = "done", !.lx = SampleLevels[pure.x],
                            !.ly = SampleLevels[pure.y]]
    /\ UNCHANGED dbvars

NextMono == LevelsOfPair

SpecMono == InitMono /\ [][NextMono]_vars

\* C12: for all integers 0 <= x <= y, calculate_level(x) <= calculate_level(y),
\* and calculate_level(x) = 0 for every x <= 0.
C12_Monotone ==
    pure.pc = "done" =>
        /\ PyLeq(PyInt(0), pure.x) => pure.lx <= pure.ly
        /\ PyLeq(pure.x, PyInt(0)) => pure.lx = 0

\* A pair one XP apart on the two sides of the threshold of level 1.
C12_Witness ==
    /\ pure.pc = "done"
    /\ pure.x = PyInt(49)
    /\ pure.y = PyInt(50)
    /\ pure.lx = 0
    /\ pure.ly = 1

(***************************************************************************)
(* The ledger rows that complete_exercise accepts, src/main.py 442-466:    *)
(* one server thread, the bodies of CompletePayloads and one with a        *)
(* negative xp_earned.                                                     *)
(***************************************************************************)
LedgerPayloads ==
    CompletePayloads \cup {CompletePayload("r1", "Arm Circles", Mobility, TRUE, -50)}

NextLedger ==
    \/ \E sess \in Sessions, data \in LedgerPayloads :
           CompleteExerciseStart("w1", sess, data)
    \/ SaveStep("w1")
    \/ AddXpStep("w1")
    \/ SelectStep("w1")
    \/ UpdateStep("w1")

SpecLedger == Init /\ [][NextLedger]_vars

\* C13: every ledger entry in every reachable state has a movement type
\* among Mobility, Activation, Stability, Power, Balance and a non-negative
\* XP, whatever body complete_exercise accepts from an authenticated client.
C13_LedgerEntriesValid ==
    \A i \in 1..Len(ledger) :
        /\ ledger[i].movement_type \in MovementTypeSet
        /\ ledger[i].xp_earned >= 0

(***************************************************************************)
(* Recovery: a complete_exercise request is stopped between two of its     *)
(* commits and update_movement_level, src/main.py 56-77, is run again for  *)
(* its user and movement type, twice.                                      *)
(***************************************************************************)
InitRecover ==
    /\ InitDB
    /\ pure = [pc |-> "running", user_id |-> NoSession, movement_type |-> <<>>,
               xp_amount |-> 0, stale |-> FALSE, first |-> level]

\* The stored level of a movement type differs from the level of its sum.
StaleLevel(user_id, movement_type) ==
    /\ level_field(movement_type) \in LevelColumns
    /\ level[user_id][level_field(movement_type)]
           # LevelOfXp(SumXp(ledger, user_id, movement_type))

\* The server process dies after a commit of the request and before the
\* next statement: the INSERT is done, the rest of the request is lost.
StopRequest(w) ==
    /\ pure.pc = "running"
    /\ req[w].pc \in {"add_xp", "select", "update"}
    /\ pure' = [pure EXCEPT !.pc = "stopped", !.user_id = req[w].user_id,
                            !.movement_type = req[w].movement_type,
                            !.xp_amount = req[w].xp_earned,
                            !.stale = StaleLevel(req[w].user_id,
                                                 req[w].movement_type)]
    /\ req' = [req EXCEPT ![w] = Idle]
    /\ UNCHANGED <<ledger, total_xp, level, hist>>

\* update_movement_level for the stopped request's user and type.
RecomputeLevel ==
    /\ pure.pc \in {"stopped", "once"}
    /\ level' = update_movement_level(level, ledger, pure.user_id,
                                      pure.movement_type, pure.xp_amount)
    /\ pure' = [pure EXCEPT !.pc = IF pure.pc = "stopped" THEN "once" ELSE "twice",
                            !.first = IF pure.pc = "stopped" THEN level' ELSE @]
    /\ UNCHANGED <<ledger, total_xp, req, hist>>

NextRecover ==
    \/ /\ pure.pc = "running"
       /\ \/ \E sess \in Sessions, data \in LedgerPayloads :
                 CompleteExerciseStart("w1", sess, data)
          \/ SaveStep("w1")
          \/ AddXpStep("w1")
          \/ SelectStep("w1")
          \/ UpdateStep("w1")
    \/ StopRequest("w1")
    \/ RecomputeLevel

SpecRecover == InitRecover /\ [][NextRecover]_vars

\* C14: after a complete_exercise request was stopped between its commits,
\* one run of update_movement_level for its user and movement type leaves
\* the stored level equal to calculate_level of the ledger sum, and a second
\* run leaves the stored levels as the first left them.
C14_RecomputeConverges ==
    /\ (pure.pc \in {"once", "twice"}
           /\ level_field(pure.movement_type) \in LevelColumns)
       => level[pure.user_id][level_field(pure.movement_type)]
              = MathLevel(SumXp(ledger, pure.user_id, pure.movement_type))
    /\ pure.pc = "twice" => level = pure.first

\* The request was stopped with a stale level column, which the two runs
\* brought to level 2.
C14_Witness ==
    /\ pure.pc = "twice"
    /\ pure.stale
    /\ pure.movement_type = Mobility
    /\ level[pure.user_id][level_field(Mobility)] = 2

(***************************************************************************)
(* Reads during writes: get_user_stats, src/main.py 300-341, one SELECT    *)
(* per step, while two server threads run complete_exercise requests of    *)
(* user u1.                                                                *)
(***************************************************************************)
ReadPayloads ==
    {p \in CompletePayloads : p.movement_type \in {Mobility, Stability}}

\* Mutant of get_user_stats_level: the level column of the user row.
get_user_stats_level_cached(user, rows, user_id, movement_type) ==
    user[level_field(movement_type)]

\* One turn of the loop of get_user_stats: the SUM of the movement type and
\* calculate_level of it.  user is the row read before the loop (total_xp
\* and the five level columns).
get_user_stats_level(user, rows, user_id, movement_type) ==
    LevelOfXp(SumXp(rows, user_id, movement_type))

InitRead ==
    /\ InitDB
    /\ pure = [pc |-> "idle", user_id |-> NoSession, user |-> level["u1"],
               next |-> 1, movement_xp |-> NoStats, levels |-> NoStats]

\* get_user_stats up to the loop: the row of the user is read.
StatsStart(user_id) ==
    /\ pure.pc = "idle"
    /\ pure' = [pure EXCEPT !.pc = "loop", !.user_id = user_id,
                            !.user = level[user_id]]
    /\ UNCHANGED dbvars

\* One turn of the loop; after the last one the function returns.
StatsSelect ==
    /\ pure.pc = "loop"
    /\ LET movement_type == MovementTypes[pure.next]
       IN  pure' = [pure EXCEPT
               !.movement_xp[Lower(movement_type)] =
                   SumXp(ledger, pure.user_id, movement_type),
               !.levels[Lower(movement_type)] =
                   get_user_stats_level(pure.user, ledger, pure.user_id,
                                        movement_type),
               !.next = @ + 1,
               !.pc = IF pure.next = Len(MovementTypes) THEN "returned"
                      ELSE "loop"]
    /\ UNCHANGED dbvars

NextRead ==
    \/ \E w \in Workers, data \in ReadPayloads :
           CompleteExerciseStart(w, "u1", data)
    \/ \E w \in Workers : SaveStep(w)
    \/ \E w \in Workers : AddXpStep(w)
    \/ \E w \in Workers : SelectStep(w)
    \/ \E w \in Workers : UpdateStep(w)
    \/ \E u \in Users : StatsStart(u)
    \/ StatsSelect

SpecRead == InitRead /\ [][NextRead]_vars

\* C15: whatever the level columns hold, each level that get_user_stats
\* returns is calculate_level of the ledger sum of the user and movement
\* type that the read saw (the sum it returns as movement_xp), and once the
\* requests are over a read that follows them returns the levels of the
\* final ledger.
C15_ReadSelfCorrects ==
    /\ [](\A i \in 1..Len(MovementTypes) :
             i < pure.next =>
                 pure.levels[Lower(MovementTypes[i])]
                     = MathLevel(pure.movement_xp[Lower(MovementTypes[i])]))
    /\ [][\A i \in 1..Len(MovementTypes) :
              pure'.next = i + 1 /\ pure.next = i =>
                  pure'.movement_xp[Lower(MovementTypes[i])]
                      = SumXp(ledger, pure.user_id, MovementTypes[i])]_vars

\* Both requests are over, the Mobility column holds 1 for a ledger sum of
\* 200, and the read returned level 2.
C15_Witness ==
    /\ pure.pc = "returned"
    /\ pure.user_id = "u1"
    /\ Quiescent
    /\ level["u1"][level_field(Mobility)] = 1
    /\ pure.user[level_field(Mobility)] = 1
    /\ pure.movement_xp[Lower(Mobility)] = 200
    /\ pure.levels[Lower(Mobility)] = 2

=============================================================================
